---- MODULE Spec2Model ----
(***************************************************************************)
(* Model of brainfuck.py: BrainfuckLexer.tokenize, the construction of a   *)
(* BrainfuckInterpreter (validate, _calc_jump_table, bit-width selection)  *)
(* and the fetch-decode-execute loop of BrainfuckInterpreter.run.          *)
(*                                                                         *)
(* Python integers are unbounded; the cell modulus reaches 2^64.  Integer  *)
(* values of cells and of the modulus are therefore kept as little-endian  *)
(* sequences of limbs in base 2^16 (value = sum of limb[k] * Base^(k-1)).  *)
(***************************************************************************)
EXTENDS Integers, Sequences, FiniteSets, TLC

(* ---------------------------- bounds ----------------------------------- *)
\* longest source text drawn as input
MaxSrcLen == 4
\* largest value of run()'s step counter at which an instruction still runs,
\* for the programs of at most MaxSrcLen characters
MaxSteps == 7
\* the same, for the longer programs of the scenarios
MaxLongSteps == 64
\* transfer scenario: cell 0 starts from 0..MaxA increments, cell 1 from
\* 0..MaxB increments
MaxA == 2
MaxB == 5

(* ----------------------- unbounded integers ---------------------------- *)
Base == 256 * 256
Zero == <<0, 0, 0, 0, 0>>
One == <<1, 0, 0, 0, 0>>
\* the Python value -1 (only ever the transient result of 0 - 1)
MinusOne == <<-1, 0, 0, 0, 0>>

RECURSIVE AddCarry(_, _, _)
AddCarry(v, k, c) ==
    IF c = 0 \/ k > Len(v) THEN v
    ELSE LET s == v[k] + c
         IN AddCarry([v EXCEPT ![k] = s % Base], k + 1, s \div Base)

\* v + 1
Add1(v) == AddCarry(v, 1, 1)

RECURSIVE SubBorrow(_, _)
SubBorrow(v, k) ==
    IF k > Len(v) THEN MinusOne
    ELSE IF v[k] > 0 THEN [v EXCEPT ![k] = v[k] - 1]
    ELSE SubBorrow([v EXCEPT ![k] = Base - 1], k + 1)

\* v - 1 for v >= 0
Sub1(v) == SubBorrow(v, 1)

\* 2 ** n: the binary digit n lies in limb n \div 16, at bit n % 16
Pow2(n) ==
    [k \in DOMAIN Zero |-> IF k = (n \div 16) + 1 THEN 2 ^ (n % 16) ELSE 0]

RECURSIVE LessFrom(_, _, _)
LessFrom(a, b, k) ==
    IF k = 0 THEN FALSE
    ELSE IF a[k] # b[k] THEN a[k] < b[k]
    ELSE LessFrom(a, b, k - 1)

\* a < b
Less(a, b) == LessFrom(a, b, Len(a))

\* v >= 0
NonNegative(v) == \A k \in DOMAIN v : v[k] >= 0

(* ----------------------------- tokens ---------------------------------- *)
TokenEnum ==
    {"INCREMENT_POINTER", "DECREMENT_POINTER", "INCREMENT_BYTE",
     "DECREMENT_BYTE", "OUTPUT_BYTE", "INPUT_BYTE", "LOOP_START", "LOOP_END"}

token_enum_map ==
    (">" :> "INCREMENT_POINTER") @@ ("<" :> "DECREMENT_POINTER") @@
    ("+" :> "INCREMENT_BYTE") @@ ("-" :> "DECREMENT_BYTE") @@
    ("." :> "OUTPUT_BYTE") @@ ("," :> "INPUT_BYTE") @@
    ("[" :> "LOOP_START") @@ ("]" :> "LOOP_END")

valid_whitespaces == {" ", "\n", "\t"}

\* characters a source text is drawn from: the eight symbols, the three
\* whitespace characters and one character that is neither
Chars == DOMAIN token_enum_map \cup valid_whitespaces \cup {"h"}

\* BrainfuckToken(token_type, source_char_idx)
BrainfuckToken(token_type, source_char_idx) ==
    [type |-> token_type, char_idx |-> source_char_idx]

\* BrainfuckToken.from_char: KeyError when char is not a key of the map
from_char(char, char_idx) ==
    IF char \in DOMAIN token_enum_map
      THEN [raised |-> FALSE,
            token |-> BrainfuckToken(token_enum_map[char], char_idx)]
      ELSE [raised |-> TRUE, token |-> <<>>]

RECURSIVE TokenizeFrom_TokenIndex(_, _, _)
\* variant: a token is tagged with its index among the tokens instead of
\* the offset of its character
TokenizeFrom_TokenIndex(text, idx, toks) ==
    IF idx >= Len(text) THEN [raised |-> FALSE, tokens |-> toks]
    ELSE LET char == text[idx + 1]
         IN IF char \in valid_whitespaces
              THEN TokenizeFrom_TokenIndex(text, idx + 1, toks)
            ELSE IF char \notin DOMAIN token_enum_map
              THEN TokenizeFrom_TokenIndex(text, idx + 1, toks)
            ELSE LET made == from_char(char, Len(toks))
                 IN IF made.raised
                      THEN [raised |-> TRUE, tokens |-> toks]
                      ELSE TokenizeFrom_TokenIndex(text, idx + 1,
                                                   Append(toks, made.token))

RECURSIVE TokenizeFrom(_, _, _)
\* the for loop of tokenize; idx is the zero-based position of the
\* character text[idx + 1]
TokenizeFrom(text, idx, toks) ==
    IF idx >= Len(text) THEN [raised |-> FALSE, tokens |-> toks]
    ELSE LET char == text[idx + 1]
         IN IF char \in valid_whitespaces
              THEN TokenizeFrom(text, idx + 1, toks)
            ELSE IF char \notin DOMAIN token_enum_map
              THEN TokenizeFrom(text, idx + 1, toks)
            ELSE LET made == from_char(char, idx)
                 IN IF made.raised
                      THEN [raised |-> TRUE, tokens |-> toks]
                      ELSE TokenizeFrom(text, idx + 1,
                                        Append(toks, made.token))

tokenize(text) == TokenizeFrom(text, 0, <<>>)

(* -------------------- interpreter construction ------------------------- *)
\* variant: popping the empty list is tolerated
Pop_NoRaise(stack) ==
    IF Len(stack) = 0
      THEN [raised |-> FALSE, top |-> 0, rest |-> stack]
      ELSE [raised |-> FALSE, top |-> stack[Len(stack)],
            rest |-> SubSeq(stack, 1, Len(stack) - 1)]

\* list.pop() on jump_stack: IndexError on the empty list
Pop(stack) ==
    IF Len(stack) = 0
      THEN [raised |-> TRUE, top |-> 0, rest |-> stack]
      ELSE [raised |-> FALSE, top |-> stack[Len(stack)],
            rest |-> SubSeq(stack, 1, Len(stack) - 1)]

RECURSIVE ValidateFrom_Inverted(_, _, _)
\* variant: the verdict is bool(jump_stack) instead of its negation
ValidateFrom_Inverted(toks, i, jump_stack) ==
    IF i >= Len(toks)
      THEN [raised |-> FALSE, ret |-> (Len(jump_stack) # 0)]
    ELSE LET typ == toks[i + 1].type
             s1 == IF typ = "LOOP_START" THEN Append(jump_stack, i)
                   ELSE jump_stack
         IN IF typ = "LOOP_END"
              THEN LET p == Pop(s1)
                   IN IF p.raised THEN [raised |-> TRUE, ret |-> FALSE]
                      ELSE ValidateFrom_Inverted(toks, i + 1, p.rest)
              ELSE ValidateFrom_Inverted(toks, i + 1, s1)

RECURSIVE ValidateFrom(_, _, _)
\* the for loop of validate; i is the zero-based index instr
ValidateFrom(toks, i, jump_stack) ==
    IF i >= Len(toks)
      THEN [raised |-> FALSE, ret |-> (Len(jump_stack) = 0)]
    ELSE LET typ == toks[i + 1].type
             s1 == IF typ = "LOOP_START" THEN Append(jump_stack, i)
                   ELSE jump_stack
         IN IF typ = "LOOP_END"
              THEN LET p == Pop(s1)
                   IN IF p.raised THEN [raised |-> TRUE, ret |-> FALSE]
                      ELSE ValidateFrom(toks, i + 1, p.rest)
              ELSE ValidateFrom(toks, i + 1, s1)

validate(toks) == ValidateFrom(toks, 0, <<>>)

\* dict item assignment: the new value replaces an existing one
SetItem(d, k, v) == (k :> v) @@ d

RECURSIVE CalcFrom_EndToEnd(_, _, _, _)
\* variant: the LoopStart is mapped to the LoopEnd itself, the LoopEnd to
\* the instruction after the LoopStart
CalcFrom_EndToEnd(toks, i, jump_stack, table) ==
    IF i >= Len(toks)
      THEN [raised |-> FALSE, table |-> table]
    ELSE LET typ == toks[i + 1].type
             s1 == IF typ = "LOOP_START" THEN Append(jump_stack, i)
                   ELSE jump_stack
         IN IF typ = "LOOP_END"
              THEN LET p == Pop(s1)
                       start_loop == p.top
                   IN IF p.raised THEN [raised |-> TRUE, table |-> table]
                      ELSE CalcFrom_EndToEnd(toks, i + 1, p.rest,
                               SetItem(SetItem(table, i, start_loop + 1),
                                       start_loop, i))
              ELSE CalcFrom_EndToEnd(toks, i + 1, s1, table)

RECURSIVE CalcFrom_EndOnly(_, _, _, _)
\* variant: only the entry of the LoopEnd is recorded
CalcFrom_EndOnly(toks, i, jump_stack, table) ==
    IF i >= Len(toks)
      THEN [raised |-> FALSE, table |-> table]
    ELSE LET typ == toks[i + 1].type
             s1 == IF typ = "LOOP_START" THEN Append(jump_stack, i)
                   ELSE jump_stack
         IN IF typ = "LOOP_END"
              THEN LET p == Pop(s1)
                       start_loop == p.top
                   IN IF p.raised THEN [raised |-> TRUE, table |-> table]
                      ELSE CalcFrom_EndOnly(toks, i + 1, p.rest,
                               SetItem(table, i, start_loop))
              ELSE CalcFrom_EndOnly(toks, i + 1, s1, table)

RECURSIVE CalcFrom(_, _, _, _)
\* the for loop of _calc_jump_table; i is the zero-based index instr
CalcFrom(toks, i, jump_stack, table) ==
    IF i >= Len(toks)
      THEN [raised |-> FALSE, table |-> table]
    ELSE LET typ == toks[i + 1].type
             s1 == IF typ = "LOOP_START" THEN Append(jump_stack, i)
                   ELSE jump_stack
         IN IF typ = "LOOP_END"
              THEN LET p == Pop(s1)
                       start_loop == p.top
                   IN IF p.raised THEN [raised |-> TRUE, table |-> table]
                      ELSE CalcFrom(toks, i + 1, p.rest,
                               SetItem(SetItem(table, i, start_loop),
                                       start_loop, i + 1))
              ELSE CalcFrom(toks, i + 1, s1, table)

calc_jump_table(toks) == CalcFrom(toks, 0, <<>>, <<>>)

\* variant: an unsupported width is used as given
SelectBits_NoFallback(b) == [bits |-> b, bitwidth |-> Pow2(b)]

\* the bit-width selection of __init__
SelectBits(b) ==
    IF b \in {8, 16, 32, 64}
      THEN [bits |-> b, bitwidth |-> Pow2(b)]
      ELSE [bits |-> 8, bitwidth |-> <<256, 0, 0, 0, 0>>]

\* bit-width arguments given to the constructor
BitsArgs == {7, 8, 16, 32, 64}

(* ------------------------- cell arithmetic ----------------------------- *)
\* variant: the wrap test against the modulus is missing
IncrementByte_NoWrap(v, bw) == Add1(v)

\* data[pointer] += 1, then the wrap test against the modulus
IncrementByte(v, bw) ==
    LET s == Add1(v) IN IF s = bw THEN Zero ELSE s

\* variant: the wrap goes to the modulus instead of the modulus minus one
DecrementByte_WrapToModulus(v, bw) ==
    LET s == Sub1(v) IN IF s = MinusOne THEN bw ELSE s

\* data[pointer] -= 1, then the wrap test against -1
DecrementByte(v, bw) ==
    LET s == Sub1(v) IN IF s = MinusOne THEN Sub1(bw) ELSE s

\* bool(v) of an integer
Truthy(v) == v # Zero

\* variant: the character after the one asked for
chr_NextChar(v) ==
    IF NonNegative(v) /\ Less(v, <<0, 17, 0, 0, 0>>)
      THEN [raised |-> "none", char |-> v[1] + Base * v[2] + 1]
    ELSE IF NonNegative(v) /\ Less(v, Pow2(31))
      THEN [raised |-> "ValueError", char |-> 0]
    ELSE [raised |-> "OverflowError", char |-> 0]

\* chr(v): the character is kept as its code point, an ordinary integer;
\* ValueError for 0x110000 <= v < 2^31, OverflowError from 2^31 on (the
\* argument must fit a C int)
chr(v) ==
    IF NonNegative(v) /\ Less(v, <<0, 17, 0, 0, 0>>)
      THEN [raised |-> "none", char |-> v[1] + Base * v[2]]
    ELSE IF NonNegative(v) /\ Less(v, Pow2(31))
      THEN [raised |-> "ValueError", char |-> 0]
    ELSE [raised |-> "OverflowError", char |-> 0]

\* data.setdefault(pointer, 0), as the dict after the call
SetDefault(d, p) == IF p \in DOMAIN d THEN d ELSE d @@ (p :> Zero)

(* ------------------------------ state ---------------------------------- *)
VARIABLES
    pc,          \* phase: "source" (text given), "tokens" (tokenize returned),
                 \* "constructed" (__init__ returned), "raised" (__init__
                 \* raised), "run" (at the top of the while loop of run),
                 \* "returned" (run returned), "failed" (tokenize or run
                 \* raised)
    program,     \* BrainfuckLexer._program
    tokens,      \* BrainfuckInterpreter._tokens
    bits_arg,    \* the bits argument of __init__ (0: not yet called)
    jump_table,  \* self._jump_table
    bits,        \* self._bits (0: not assigned)
    bitwidth,    \* self._bitwidth (Zero: not assigned)
    pointer, instr, steps, data, output,   \* locals of run()
    error,       \* the exception that left __init__, run() or main(), or
                 \* "none"
    argv,        \* main(): sys.argv[1:], each file given as its text
    file_idx,    \* main(): one-based position in argv of the file being
                 \* interpreted (0: none)
    stdout,      \* main(): what print has written, in order
    main_pc      \* main(): "idle" (not called), "start", "single" (the
                 \* one-file branch), "loop" (the for loop), "done", "raised"

vars == <<pc, program, tokens, bits_arg, jump_table, bits, bitwidth,
          pointer, instr, steps, data, output, error,
          argv, file_idx, stdout, main_pc>>

mainVars == <<argv, file_idx, stdout, main_pc>>

\* main() is not running
MainIdle ==
    /\ argv = <<>> /\ file_idx = 0 /\ stdout = <<>> /\ main_pc = "idle"

Sources == UNION {[1..n -> Chars] : n \in 0..MaxSrcLen}

Init ==
    /\ pc = "source"
    /\ program \in Sources
    /\ tokens = <<>>
    /\ bits_arg = 0
    /\ jump_table = <<>>
    /\ bits = 0
    /\ bitwidth = Zero
    /\ pointer = 0 /\ instr = 0 /\ steps = 0
    /\ data = <<>> /\ output = <<>>
    /\ error = "none"
    /\ MainIdle

runLocals == <<pointer, instr, steps, data, output>>
object == <<jump_table, bits, bitwidth>>

\* BrainfuckLexer(program).tokenize()
Tokenize ==
    /\ pc = "source"
    /\ LET lexed == tokenize(program)
       IN IF lexed.raised
            THEN /\ pc' = "failed"
                 /\ error' = "KeyError"
                 /\ UNCHANGED tokens
            ELSE /\ pc' = "tokens"
                 /\ tokens' = lexed.tokens
                 /\ UNCHANGED error
    /\ UNCHANGED <<program, bits_arg, object, runLocals, mainVars>>

\* BrainfuckInterpreter(tokens, b)
Construct ==
    /\ pc = "tokens"
    /\ \E requested \in BitsArgs :
         LET val == validate(tokens)
             calc == calc_jump_table(tokens)
             sel == SelectBits(requested)
         IN /\ bits_arg' = requested
            /\ IF val.raised \/ calc.raised
                 THEN /\ pc' = "raised"
                      /\ error' = "IndexError"
                      /\ UNCHANGED object
                 ELSE /\ pc' = "constructed"
                      /\ jump_table' = calc.table
                      /\ bits' = sel.bits
                      /\ bitwidth' = sel.bitwidth
                      /\ UNCHANGED error
    /\ UNCHANGED <<program, tokens, runLocals, mainVars>>

\* entry of run(): the locals are initialised
RunEnter ==
    /\ pc = "constructed"
    /\ pc' = "run"
    /\ pointer' = 0 /\ instr' = 0 /\ steps' = 0
    /\ data' = <<>> /\ output' = <<>>
    /\ UNCHANGED <<program, tokens, bits_arg, object, error, mainVars>>

\* the cap on run()'s step counter (run() itself has none)
StepLimit == IF Len(program) <= MaxSrcLen THEN MaxSteps ELSE MaxLongSteps

\* the token fetched by an iteration of the while loop
Fetched(t) ==
    /\ pc = "run"
    /\ steps < StepLimit
    /\ instr < Len(tokens)
    /\ tokens[instr + 1].type = t
    /\ steps' = steps + 1

frame == <<program, tokens, bits_arg, object, mainVars>>

\* if instr >= len(self._tokens): break; return output
RunBreak ==
    /\ pc = "run"
    /\ instr >= Len(tokens)
    /\ steps' = steps + 1
    /\ pc' = "returned"
    /\ UNCHANGED <<frame, pointer, instr, data, output, error>>

RunIncrementPointer ==
    /\ Fetched("INCREMENT_POINTER")
    /\ data' = SetDefault(data, pointer)
    /\ pointer' = pointer + 1
    /\ instr' = instr + 1
    /\ UNCHANGED <<frame, pc, output, error>>

\* variant: the pointer does not go below 0
RunDecrementPointer_Clamped ==
    /\ Fetched("DECREMENT_POINTER")
    /\ data' = SetDefault(data, pointer)
    /\ pointer' = IF pointer > 0 THEN pointer - 1 ELSE 0
    /\ instr' = instr + 1
    /\ UNCHANGED <<frame, pc, output, error>>

RunDecrementPointer ==
    /\ Fetched("DECREMENT_POINTER")
    /\ data' = SetDefault(data, pointer)
    /\ pointer' = pointer - 1
    /\ instr' = instr + 1
    /\ UNCHANGED <<frame, pc, output, error>>

RunIncrementByte ==
    /\ Fetched("INCREMENT_BYTE")
    /\ LET d == SetDefault(data, pointer)
       IN data' = [d EXCEPT ![pointer] = IncrementByte(d[pointer], bitwidth)]
    /\ instr' = instr + 1
    /\ UNCHANGED <<frame, pc, pointer, output, error>>

RunDecrementByte ==
    /\ Fetched("DECREMENT_BYTE")
    /\ LET d == SetDefault(data, pointer)
       IN data' = [d EXCEPT ![pointer] = DecrementByte(d[pointer], bitwidth)]
    /\ instr' = instr + 1
    /\ UNCHANGED <<frame, pc, pointer, output, error>>

RunOutputByte ==
    /\ Fetched("OUTPUT_BYTE")
    /\ LET d == SetDefault(data, pointer)
           ch == chr(d[pointer])
       IN /\ data' = d
          /\ IF ch.raised # "none"
               THEN /\ pc' = "failed"
                    /\ error' = ch.raised
                    /\ UNCHANGED <<output, instr>>
               ELSE /\ output' = Append(output, ch.char)
                    /\ instr' = instr + 1
                    /\ UNCHANGED <<pc, error>>
    /\ UNCHANGED <<frame, pointer>>

\* variant: a byte is read into the current cell
RunInputByte_Reads ==
    /\ Fetched("INPUT_BYTE")
    /\ data' = [SetDefault(data, pointer) EXCEPT ![pointer] = One]
    /\ instr' = instr + 1
    /\ UNCHANGED <<frame, pc, pointer, output, error>>

RunInputByte ==
    /\ Fetched("INPUT_BYTE")
    /\ data' = SetDefault(data, pointer)
    /\ instr' = instr + 1
    /\ UNCHANGED <<frame, pc, pointer, output, error>>

\* variant: the jump lands one instruction after the recorded target
Jump_OffByOne ==
    IF instr \in DOMAIN jump_table
      THEN /\ instr' = jump_table[instr] + 1
           /\ UNCHANGED <<pc, error>>
      ELSE /\ pc' = "failed"
           /\ error' = "KeyError"
           /\ UNCHANGED instr

\* the jump of a bracket: self._jump_table[instr], KeyError on a missing key
Jump ==
    IF instr \in DOMAIN jump_table
      THEN /\ instr' = jump_table[instr]
           /\ UNCHANGED <<pc, error>>
      ELSE /\ pc' = "failed"
           /\ error' = "KeyError"
           /\ UNCHANGED instr

\* variant: a LoopStart never jumps
RunLoopStart_NoJump ==
    /\ Fetched("LOOP_START")
    /\ data' = SetDefault(data, pointer)
    /\ instr' = instr + 1
    /\ UNCHANGED <<frame, pointer, output, pc, error>>

RunLoopStart ==
    /\ Fetched("LOOP_START")
    /\ LET d == SetDefault(data, pointer)
       IN /\ data' = d
          /\ IF ~Truthy(d[pointer])
               THEN Jump
               ELSE /\ instr' = instr + 1
                    /\ UNCHANGED <<pc, error>>
    /\ UNCHANGED <<frame, pointer, output>>

\* variant: a LoopEnd jumps back on a zero cell
RunLoopEnd_Inverted ==
    /\ Fetched("LOOP_END")
    /\ LET d == SetDefault(data, pointer)
       IN /\ data' = d
          /\ IF ~Truthy(d[pointer])
               THEN Jump
               ELSE /\ instr' = instr + 1
                    /\ UNCHANGED <<pc, error>>
    /\ UNCHANGED <<frame, pointer, output>>

RunLoopEnd ==
    /\ Fetched("LOOP_END")
    /\ LET d == SetDefault(data, pointer)
       IN /\ data' = d
          /\ IF Truthy(d[pointer])
               THEN Jump
               ELSE /\ instr' = instr + 1
                    /\ UNCHANGED <<pc, error>>
    /\ UNCHANGED <<frame, pointer, output>>

Next ==
    \/ Tokenize
    \/ Construct
    \/ RunEnter
    \/ RunBreak
    \/ RunIncrementPointer
    \/ RunDecrementPointer
    \/ RunIncrementByte
    \/ RunDecrementByte
    \/ RunOutputByte
    \/ RunInputByte
    \/ RunLoopStart
    \/ RunLoopEnd

Spec == Init /\ [][Next]_vars

(* ------------------- vocabulary of the properties --------------------- *)
\* positions 1..n of toks that hold a token of type t
Positions(toks, t, lo, hi) == {k \in lo..hi : toks[k].type = t}

\* LoopStarts minus LoopEnds among the tokens lo..hi
Balance(toks, lo, hi) ==
    Cardinality(Positions(toks, "LOOP_START", lo, hi))
      - Cardinality(Positions(toks, "LOOP_END", lo, hi))

\* some prefix holds more LoopEnds than LoopStarts
HasUnmatchedLoopEnd(toks) ==
    \E n \in 1..Len(toks) : Balance(toks, 1, n) < 0

\* the LoopEnds that could close the LoopStart at position k: the segment
\* from k to the LoopEnd is balanced
Closers(toks, k) ==
    {m \in (k + 1)..Len(toks) :
        toks[m].type = "LOOP_END" /\ Balance(toks, k, m) = 0}

\* some LoopStart is closed by no later LoopEnd
HasUnmatchedLoopStart(toks) ==
    \E k \in 1..Len(toks) :
        toks[k].type = "LOOP_START" /\ Closers(toks, k) = {}

WellFormed(toks) ==
    ~HasUnmatchedLoopEnd(toks) /\ ~HasUnmatchedLoopStart(toks)

\* the matched bracket pairs <<i, j>> as zero-based instruction indices:
\* each LoopStart with the first LoopEnd that balances it
MatchedPairs(toks) ==
    {<<k - 1, m - 1>> : <<k, m>> \in
        {q \in (1..Len(toks)) \X (1..Len(toks)) :
            /\ toks[q[1]].type = "LOOP_START"
            /\ q[2] \in Closers(toks, q[1])
            /\ \A other \in Closers(toks, q[1]) : q[2] <= other}}

\* zero-based indices of the bracket instructions
BracketIndices(toks) ==
    {k - 1 : k \in Positions(toks, "LOOP_START", 1, Len(toks))
                     \cup Positions(toks, "LOOP_END", 1, Len(toks))}

\* __init__ has been called
InitCalled == pc \notin {"source", "tokens"}

\* __init__ has returned an interpreter object
Constructed == pc \in {"constructed", "run", "returned"}
                 \/ (pc = "failed" /\ bits_arg # 0)

\* no attribute of the object was assigned and no instruction has run
NothingBuiltOrRun ==
    /\ jump_table = <<>> /\ bits = 0 /\ bitwidth = Zero
    /\ pointer = 0 /\ instr = 0 /\ steps = 0
    /\ data = <<>> /\ output = <<>>

(* ------------------------------ C1 ------------------------------------- *)
\* C1: whenever the instruction sequence holds an unmatched LoopEnd, the
\* constructor raises, whatever the bit-width argument: no attribute of the
\* interpreter beyond the tokens is assigned and no instruction is executed.
C1_UnmatchedLoopEndRaises ==
    (InitCalled /\ HasUnmatchedLoopEnd(tokens)) =>
        (pc = "raised" /\ error = "IndexError" /\ NothingBuiltOrRun)

C1_Witness ==
    /\ pc = "raised"
    /\ bits_arg = 64
    /\ Len(tokens) = 3
    /\ tokens[1].type = "LOOP_START"
    /\ tokens[2].type = "LOOP_END"
    /\ tokens[3].type = "LOOP_END"

(* ------------------------------ C2 ------------------------------------- *)
\* C2: whenever the instruction sequence holds an unmatched LoopStart, the
\* constructor raises before any instruction executes.
C2_UnmatchedLoopStartRaises ==
    (InitCalled /\ HasUnmatchedLoopStart(tokens)) =>
        (pc = "raised" /\ NothingBuiltOrRun)

(* ------------------------------ C3 ------------------------------------- *)
\* C3: once the constructor has returned, for a bit-width among 8, 16, 32
\* and 64, no step of run() raises.
C3_RunNeverRaises ==
    (Constructed /\ bits_arg \in {8, 16, 32, 64}) => pc # "failed"

(* ------------------------------ C4 ------------------------------------- *)
\* C4 as stated: after construction, for every matched pair (i, j) the
\* table maps the LoopStart i to j and the LoopEnd j to i + 1.
C4_SymmetryAsStated ==
    Constructed =>
        \A q \in MatchedPairs(tokens) :
            /\ q[1] \in DOMAIN jump_table /\ q[2] \in DOMAIN jump_table
            /\ jump_table[q[1]] = q[2]
            /\ jump_table[q[2]] = q[1] + 1

\* C4 amended: after construction, for every matched pair (i, j) the table
\* maps the LoopStart i to j + 1 and the LoopEnd j to i.
C4_SymmetryAsBuilt ==
    Constructed =>
        \A q \in MatchedPairs(tokens) :
            /\ q[1] \in DOMAIN jump_table /\ q[2] \in DOMAIN jump_table
            /\ jump_table[q[1]] = q[2] + 1
            /\ jump_table[q[2]] = q[1]

\* a nested pair inside an outer pair, constructed
C4_Witness ==
    /\ pc = "constructed"
    /\ MatchedPairs(tokens) = {<<0, 3>>, <<1, 2>>}
    /\ jump_table = (0 :> 4) @@ (1 :> 3) @@ (2 :> 1) @@ (3 :> 0)

(* ------------------------------ C5 ------------------------------------- *)
\* C5: whenever the constructor has returned, the keys of the jump table
\* are exactly the indices of the LoopStart and LoopEnd instructions.
C5_JumpTableKeys ==
    Constructed => DOMAIN jump_table = BracketIndices(tokens)

(* ------------------------------ C6 ------------------------------------- *)
\* a canonical limb sequence of a value in [0, bw)
InCellRange(v, bw) ==
    /\ \A k \in DOMAIN v : v[k] >= 0 /\ v[k] < Base
    /\ Less(v, bw)

\* C6: in every state of run(), every value held in the cell store lies in
\* [0, 2^bits): no step leaves a cell at 2^bits or at a negative value.
C6_CellsInRange ==
    pc \in {"run", "returned", "failed"} =>
        \A a \in DOMAIN data : InCellRange(data[a], bitwidth)

\* "-+" has run at 64 bits: the cell went 0 -> 2^64 - 1 -> 0
C6_Witness ==
    /\ pc = "run" /\ bits = 64 /\ instr = 2 /\ steps = 2
    /\ tokens[1].type = "DECREMENT_BYTE"
    /\ tokens[2].type = "INCREMENT_BYTE"
    /\ data = (0 :> Zero)

(* ------------------------------ C7 ------------------------------------- *)
\* C7: for the configured modulus and every value a run has put in a cell,
\* DecrementCell then IncrementCell restores the value, and IncrementCell
\* then DecrementCell restores it.
C7_IncDecInverse ==
    pc \in {"run", "returned"} =>
        \A a \in DOMAIN data :
            /\ IncrementByte(DecrementByte(data[a], bitwidth), bitwidth)
                 = data[a]
            /\ DecrementByte(IncrementByte(data[a], bitwidth), bitwidth)
                 = data[a]

\* "-+-" has run at 32 bits: 0 was restored by "-+", then 2^32 - 1 is the
\* cell on which "+-" started
C7_Witness ==
    /\ pc = "run" /\ bits = 32 /\ instr = 3 /\ steps = 3
    /\ tokens[1].type = "DECREMENT_BYTE"
    /\ tokens[2].type = "INCREMENT_BYTE"
    /\ tokens[3].type = "DECREMENT_BYTE"
    /\ data = (0 :> <<65535, 65535, 0, 0, 0>>)

(* ------------------------------ C8 ------------------------------------- *)
\* the fixed mapping from symbol to instruction kind
KindOfSymbol(ch) ==
    CASE ch = ">" -> "INCREMENT_POINTER"
      [] ch = "<" -> "DECREMENT_POINTER"
      [] ch = "+" -> "INCREMENT_BYTE"
      [] ch = "-" -> "DECREMENT_BYTE"
      [] ch = "." -> "OUTPUT_BYTE"
      [] ch = "," -> "INPUT_BYTE"
      [] ch = "[" -> "LOOP_START"
      [] ch = "]" -> "LOOP_END"

\* one-based positions of the text that hold one of the eight symbols
SymbolPositions(text) ==
    {k \in 1..Len(text) :
        text[k] \in {">", "<", "+", "-", ".", ",", "[", "]"}}

\* C8: tokenize never raises and returns exactly one instruction per symbol
\* of the text, in source order, with the kind of the symbol and the
\* zero-based offset of the symbol; other characters give no instruction.
C8_TokenizeContract ==
    pc # "source" =>
        /\ ~(pc = "failed" /\ bits_arg = 0)
        /\ Len(tokens) = Cardinality(SymbolPositions(program))
        /\ \A n \in 1..Len(tokens) :
             /\ tokens[n].char_idx + 1 \in SymbolPositions(program)
             /\ tokens[n].type = KindOfSymbol(program[tokens[n].char_idx + 1])
             /\ n > 1 => tokens[n - 1].char_idx < tokens[n].char_idx

\* a text mixing an unrecognised character, whitespace and two symbols
C8_Witness ==
    /\ pc = "tokens"
    /\ program = <<"h", "[", "\n", "]">>
    /\ tokens = <<[type |-> "LOOP_START", char_idx |-> 1],
                  [type |-> "LOOP_END", char_idx |-> 3]>>

(* ------------------------------ C9 ------------------------------------- *)
\* 2^b of the four supported widths, 2^8 of any other request
ModulusOf(b) ==
    CASE b = 8 -> <<256, 0, 0, 0, 0>>
      [] b = 16 -> <<0, 1, 0, 0, 0>>
      [] b = 32 -> <<0, 0, 1, 0, 0>>
      [] b = 64 -> <<0, 0, 0, 0, 1>>
      [] OTHER -> <<256, 0, 0, 0, 0>>

\* the modulus minus one
TopValueOf(b) ==
    CASE b = 8 -> <<255, 0, 0, 0, 0>>
      [] b = 16 -> <<65535, 0, 0, 0, 0>>
      [] b = 32 -> <<65535, 65535, 0, 0, 0>>
      [] b = 64 -> <<65535, 65535, 65535, 65535, 0>>
      [] OTHER -> <<255, 0, 0, 0, 0>>

\* C9: the constructor raises only on an unmatched LoopEnd, never because of
\* the requested width; the modulus of a constructed interpreter is 2^bits
\* for a request of 8, 16, 32 or 64 and 2^8 otherwise; DecrementCell as the
\* first instruction, on the cell at 0, leaves the modulus minus one.
C9_Modulus ==
    /\ pc = "raised" => HasUnmatchedLoopEnd(tokens)
    /\ Constructed => bitwidth = ModulusOf(bits_arg)
    /\ (pc = "run" /\ steps = 1 /\ tokens[1].type = "DECREMENT_BYTE") =>
           data = (0 :> TopValueOf(bits_arg))

\* an unsupported request of 7: "-" on the fresh cell gave 2^8 - 1
C9_Witness ==
    /\ pc = "run" /\ steps = 1 /\ bits_arg = 7
    /\ tokens[1].type = "DECREMENT_BYTE"
    /\ data = (0 :> <<255, 0, 0, 0, 0>>)

(* ------------------------------ C10 ------------------------------------ *)
\* C10: for every well-formed instruction sequence given to the
\* constructor, validate returns true without raising, the jump-table
\* construction does not raise, and the constructor returns.
C10_WellFormedAccepted ==
    (InitCalled /\ WellFormed(tokens)) =>
        /\ validate(tokens) = [raised |-> FALSE, ret |-> TRUE]
        /\ ~calc_jump_table(tokens).raised
        /\ pc # "raised"

\* two loops in sequence, constructed
C10_Witness ==
    /\ pc = "constructed"
    /\ Len(tokens) = 4 /\ WellFormed(tokens)
    /\ tokens[1].type = "LOOP_START" /\ tokens[2].type = "LOOP_END"
    /\ tokens[3].type = "LOOP_START" /\ tokens[4].type = "LOOP_END"

(* ------------------------------ C11 ------------------------------------ *)
\* n copies of the character ch
Repeat(ch, n) == [k \in 1..n |-> ch]

\* a increments of cell 0, b increments of cell 1, then the transfer loop
\* and the output of cell 0
TransferProgram(a, b) ==
    Repeat("+", a) \o <<">">> \o Repeat("+", b)
      \o <<"[", "<", "+", ">", "-", "]", "<", ".">>

TransferAs == 0..MaxA

TransferInit ==
    /\ pc = "source"
    /\ program \in {TransferProgram(ab[1], ab[2]) :
                       ab \in TransferAs \X (0..MaxB)}
    /\ tokens = <<>>
    /\ bits_arg = 0
    /\ jump_table = <<>>
    /\ bits = 0
    /\ bitwidth = Zero
    /\ pointer = 0 /\ instr = 0 /\ steps = 0
    /\ data = <<>> /\ output = <<>>
    /\ error = "none"
    /\ MainIdle

\* the steps a transfer program can take: it holds no Input instruction
TransferNext ==
    \/ Tokenize
    \/ Construct
    \/ RunEnter
    \/ RunBreak
    \/ RunIncrementPointer
    \/ RunDecrementPointer
    \/ RunIncrementByte
    \/ RunDecrementByte
    \/ RunOutputByte
    \/ RunLoopStart
    \/ RunLoopEnd

\* the interpreter runs on: a step that can be taken is taken
TransferSpec ==
    TransferInit /\ [][TransferNext]_vars /\ WF_vars(TransferNext)

\* the numbers of increments (a, b) of the transfer program of this run
TransferAB ==
    CHOOSE ab \in TransferAs \X (0..MaxB) :
        program = TransferProgram(ab[1], ab[2])

\* (a + b) mod 2^bits, for a + b below 2^32
TransferSum ==
    LET sum == TransferAB[1] + TransferAB[2]
    IN IF bits = 8 THEN sum % (2 ^ 8)
       ELSE IF bits = 16 THEN sum % (2 ^ 16)
       ELSE sum

\* the value of the cell at address a, an absent cell read as 0
CellValue(d, a) == IF a \in DOMAIN d THEN d[a] ELSE Zero

C11_TransferState ==
    /\ pc \notin {"raised", "failed"}
    /\ pc = "run" => steps < StepLimit
    /\ pc = "returned" =>
          /\ output = <<TransferSum>>
          /\ CellValue(data, 1) = Zero

CellValuesUnchanged ==
    \A a \in DOMAIN data \cup DOMAIN data' :
        CellValue(data', a) = CellValue(data, a)

\* a run of a program made only of Input and Output instructions
InputOutputRun ==
    /\ pc \in {"run", "returned"}
    /\ \A k \in 1..Len(tokens) : tokens[k].type \in {"INPUT_BYTE", "OUTPUT_BYTE"}

\* C12: a step that executes an Input instruction leaves the pointer, the
\* output and the value of every cell (an absent cell read as 0) unchanged
\* and advances the program counter by exactly 1; a program made only of
\* Input and Output instructions outputs code point 0 only.
C12_InputInert ==
    /\ [][RunInputByte =>
            /\ pointer' = pointer
            /\ output' = output
            /\ CellValuesUnchanged
            /\ instr' = instr + 1
            /\ pc' = "run"]_vars
    /\ [](InputOutputRun => \A k \in 1..Len(output) : output[k] = 0)

\* ",." has run: the Input was executed, the Output gave code point 0
C12_Witness ==
    /\ pc = "run" /\ instr = 2 /\ steps = 2
    /\ Len(tokens) = 2
    /\ tokens[1].type = "INPUT_BYTE" /\ tokens[2].type = "OUTPUT_BYTE"
    /\ output = <<0>>

(* ------------------------------ C13 ------------------------------------ *)
\* the value of the cell at the pointer is 0 (an absent cell read as 0)
CurrentCellZero == CellValue(data, pointer) = Zero

\* C13 as stated: a LoopStart at index i on a zero cell sets the program
\* counter to the index of its matching LoopEnd; on a non-zero cell to
\* i + 1; pointer, cell values and output are unchanged.
C13_LoopStartAsStated ==
    [][RunLoopStart =>
         /\ CurrentCellZero =>
              \A q \in MatchedPairs(tokens) : q[1] = instr => instr' = q[2]
         /\ ~CurrentCellZero => instr' = instr + 1
         /\ pointer' = pointer /\ output' = output /\ CellValuesUnchanged]_vars

\* C13 amended: a LoopStart at index i on a zero cell sets the program
\* counter to the index immediately after its matching LoopEnd, which is
\* the value jump_table[i]; on a non-zero cell to i + 1; pointer, cell
\* values and output are unchanged.
C13_LoopStartAsBuilt ==
    [][RunLoopStart =>
         /\ CurrentCellZero =>
              \A q \in MatchedPairs(tokens) :
                  q[1] = instr =>
                      (instr' = q[2] + 1 /\ instr' = jump_table[instr])
         /\ ~CurrentCellZero => instr' = instr + 1
         /\ pointer' = pointer /\ output' = output /\ CellValuesUnchanged]_vars

\* "[+]" : the LoopStart at 0 found a zero cell and went past its LoopEnd
C13_Witness ==
    /\ pc = "run" /\ steps = 1 /\ instr = 3
    /\ Len(tokens) = 3
    /\ tokens[1].type = "LOOP_START"
    /\ tokens[2].type = "INCREMENT_BYTE"
    /\ tokens[3].type = "LOOP_END"

(* ------------------------------ C14 ------------------------------------ *)
\* C14: a LoopEnd at index j on a non-zero cell sets the program counter to
\* the index of its matching LoopStart, which is the value jump_table[j];
\* on a zero cell to j + 1; pointer, cell values and output are unchanged.
C14_LoopEnd ==
    [][RunLoopEnd =>
         /\ ~CurrentCellZero =>
              \E q \in MatchedPairs(tokens) :
                  /\ q[2] = instr
                  /\ instr' = q[1]
                  /\ instr' = jump_table[instr]
         /\ CurrentCellZero => instr' = instr + 1
         /\ pc' = "run"
         /\ pointer' = pointer /\ output' = output /\ CellValuesUnchanged]_vars

\* "+[]" : the LoopEnd at 2 found the cell at 1 and went back to the
\* LoopStart at 1
C14_Witness ==
    /\ pc = "run" /\ steps = 3 /\ instr = 1
    /\ Len(tokens) = 3
    /\ tokens[1].type = "INCREMENT_BYTE"
    /\ tokens[2].type = "LOOP_START"
    /\ tokens[3].type = "LOOP_END"

(* ------------------------------ C15 ------------------------------------ *)
\* C15 as stated: MoveRight (MoveLeft) changes the pointer by +1 (-1),
\* advances the program counter by 1 and leaves the cell store (addresses
\* and values) and the output as they were.
C15_MoveAsStated ==
    [][/\ RunIncrementPointer => pointer' = pointer + 1
       /\ RunDecrementPointer => pointer' = pointer - 1
       /\ (RunIncrementPointer \/ RunDecrementPointer) =>
             /\ instr' = instr + 1
             /\ data' = data
             /\ output' = output]_vars

\* C15 amended: MoveRight (MoveLeft) changes the pointer by +1 (-1),
\* advances the program counter by 1 and leaves the output and the value of
\* every cell (an absent cell read as 0) as they were; the address the
\* pointer held before the move is added to the cell store if it was absent,
\* and no other address is.
C15_MoveAsBuilt ==
    [][/\ RunIncrementPointer => pointer' = pointer + 1
       /\ RunDecrementPointer => pointer' = pointer - 1
       /\ (RunIncrementPointer \/ RunDecrementPointer) =>
             /\ instr' = instr + 1
             /\ DOMAIN data' = DOMAIN data \cup {pointer}
             /\ CellValuesUnchanged
             /\ output' = output]_vars

\* "<<" : the pointer is at -2, the addresses 0 and -1 were created
C15_Witness ==
    /\ pc = "run" /\ steps = 2 /\ instr = 2
    /\ tokens[1].type = "DECREMENT_POINTER"
    /\ tokens[2].type = "DECREMENT_POINTER"
    /\ pointer = -2
    /\ data = (0 :> Zero) @@ (-1 :> Zero)

(* ------------------------------ C16 ------------------------------------ *)
\* the integer n, 0 <= n < 2^31, as limbs
AsLimbs(n) == <<n % Base, n \div Base, 0, 0, 0>>

\* C16: a step that executes an Output instruction appends exactly one
\* character, whose code point is the value of the cell at the pointer (0
\* for an absent cell), at the end of the output and leaves the pointer and
\* the cell values unchanged; no other step of run() changes the output.
C16_OutputAppends ==
    [][/\ RunOutputByte =>
            /\ Len(output') = Len(output) + 1
            /\ SubSeq(output', 1, Len(output)) = output
            /\ AsLimbs(output'[Len(output')]) = CellValue(data, pointer)
            /\ pointer' = pointer
            /\ CellValuesUnchanged
       /\ (pc = "run" /\ ~RunOutputByte) => output' = output]_vars

(* ------------------------------ C17 ------------------------------------ *)
\* no LoopStart and no LoopEnd among the tokens
BracketFree(toks) ==
    \A k \in 1..Len(toks) : toks[k].type \notin {"LOOP_START", "LOOP_END"}

\* C17: run() starts at program counter 0 and pointer 0 with an empty cell
\* store and returns only with the program counter at or beyond the number
\* of instructions; a program of n instructions without brackets never
\* raises, executes its instructions in index order, each once (the step
\* counter equals the program counter), and returns after exactly n of them.
C17_StraightLine ==
    /\ (pc = "run" /\ steps = 0) =>
           (instr = 0 /\ pointer = 0 /\ data = <<>> /\ output = <<>>)
    /\ pc = "returned" => instr >= Len(tokens)
    /\ (pc \in {"run", "returned", "failed"} /\ BracketFree(tokens)) =>
           /\ pc # "failed"
           /\ instr <= Len(tokens)
           /\ pc = "run" => steps = instr
           /\ pc = "returned" =>
                  (instr = Len(tokens) /\ steps = Len(tokens) + 1)

(* ------------------------------ C18 ------------------------------------ *)
C18_SafeState ==
    (WellFormed(tokens) /\ pc \in {"run", "returned", "failed"}) =>
        /\ instr \in 0..Len(tokens)
        /\ error # "KeyError"
        /\ \A k \in DOMAIN jump_table : jump_table[k] \in 0..Len(tokens)
        /\ (pc = "run" /\ instr < Len(tokens)
              /\ tokens[instr + 1].type \in {"LOOP_START", "LOOP_END"}) =>
               instr \in DOMAIN jump_table

\* C18: during the run of a bracket-balanced program the program counter
\* stays in [0, n], the key looked up at a LoopStart or LoopEnd is in the
\* jump table (no KeyError), every jump target lies in [0, n], and no step
\* of run() changes the jump table or the instruction sequence.
C18_Safe ==
    /\ []C18_SafeState
    /\ [][pc = "run" => (jump_table' = jump_table /\ tokens' = tokens)]_vars

\* "+[-]" has returned: both brackets looked their targets up
C18_Witness ==
    /\ pc = "returned" /\ steps = 5 /\ instr = 4
    /\ Len(tokens) = 4
    /\ tokens[1].type = "INCREMENT_BYTE"
    /\ tokens[2].type = "LOOP_START"
    /\ tokens[3].type = "DECREMENT_BYTE"
    /\ tokens[4].type = "LOOP_END"
    /\ jump_table = (1 :> 4) @@ (3 :> 1)

(* ------------------------------ C19 ------------------------------------ *)
\* a cell store as the function of its non-zero cells (two stores that read
\* the same at every address have the same such function)
NonZeroCells(d) == [a \in {x \in DOMAIN d : d[x] # Zero} |-> d[a]]

\* the write of value v at address a into such a function
WriteCell(cells, a, v) ==
    IF v = Zero THEN [x \in DOMAIN cells \ {a} |-> cells[x]]
    ELSE (a :> v) @@ cells

\* the observable state of the run() in progress: program counter, pointer,
\* cells, output, and "run", "returned" or the exception raised
CodeState ==
    [instr |-> instr, pointer |-> pointer, cells |-> NonZeroCells(data),
     output |-> output,
     status |-> IF pc = "failed" THEN error ELSE pc]

\* the jump table as the specification describes it: a LoopStart maps to
\* its matching LoopEnd, a LoopEnd to the instruction after its LoopStart
SpecJumpTable(toks) ==
    [k \in BracketIndices(toks) |->
        IF toks[k + 1].type = "LOOP_START"
          THEN (CHOOSE q \in MatchedPairs(toks) : q[1] = k)[2]
          ELSE (CHOOSE q \in MatchedPairs(toks) : q[2] = k)[1] + 1]

\* one iteration of the interpreter the specification describes, from the
\* state st with status "run": the brackets jump through SpecJumpTable, the
\* other instructions are those of run()
SpecStep(st) ==
    IF st.instr >= Len(tokens) THEN [st EXCEPT !.status = "returned"]
    ELSE LET typ == tokens[st.instr + 1].type
             cell == CellValue(st.cells, st.pointer)
             next == [st EXCEPT !.instr = st.instr + 1]
         IN CASE typ = "INCREMENT_POINTER" ->
                   [next EXCEPT !.pointer = st.pointer + 1]
              [] typ = "DECREMENT_POINTER" ->
                   [next EXCEPT !.pointer = st.pointer - 1]
              [] typ = "INCREMENT_BYTE" ->
                   [next EXCEPT !.cells = WriteCell(st.cells, st.pointer,
                                            IncrementByte(cell, bitwidth))]
              [] typ = "DECREMENT_BYTE" ->
                   [next EXCEPT !.cells = WriteCell(st.cells, st.pointer,
                                            DecrementByte(cell, bitwidth))]
              [] typ = "OUTPUT_BYTE" ->
                   IF chr(cell).raised # "none"
                     THEN [st EXCEPT !.status = chr(cell).raised]
                     ELSE [next EXCEPT
                             !.output = Append(st.output, chr(cell).char)]
              [] typ = "INPUT_BYTE" -> next
              [] typ = "LOOP_START" ->
                   IF cell = Zero
                     THEN [st EXCEPT !.instr = SpecJumpTable(tokens)[st.instr]]
                     ELSE next
              [] typ = "LOOP_END" ->
                   IF cell # Zero
                     THEN [st EXCEPT !.instr = SpecJumpTable(tokens)[st.instr]]
                     ELSE next

\* st is at a bracket that lets execution through to the next instruction:
\* a LoopStart on a non-zero cell or a LoopEnd on a zero cell
PassesThrough(st) ==
    /\ st.status = "run"
    /\ st.instr < Len(tokens)
    /\ \/ /\ tokens[st.instr + 1].type = "LOOP_START"
          /\ CellValue(st.cells, st.pointer) # Zero
       \/ /\ tokens[st.instr + 1].type = "LOOP_END"
          /\ CellValue(st.cells, st.pointer) = Zero

RECURSIVE Settled(_)
\* st after the brackets that let execution through: the state at the next
\* instruction that has an effect, jumps, or ends the run
Settled(st) ==
    IF PassesThrough(st) THEN Settled([st EXCEPT !.instr = st.instr + 1])
    ELSE st

\* C19: on a bracket-balanced program, every step of run() is matched by
\* the interpreter of the specification: a step through a bracket that lets
\* execution through leaves the settled state unchanged, and any other step
\* leads to the settled state that one step of the specification's
\* interpreter leads to (same program counter, pointer, cell values,
\* output, and same return or exception).
C19_SameRuns ==
    [][(pc = "run" /\ WellFormed(tokens)) =>
          IF PassesThrough(CodeState)
            THEN Settled(CodeState') = Settled(CodeState)
            ELSE Settled(CodeState') = Settled(SpecStep(CodeState))]_vars

\* "[+]." has returned: the LoopStart was skipped, the Output gave 0
C19_Witness ==
    /\ pc = "returned" /\ steps = 3 /\ instr = 4
    /\ Len(tokens) = 4
    /\ tokens[1].type = "LOOP_START"
    /\ tokens[2].type = "INCREMENT_BYTE"
    /\ tokens[3].type = "LOOP_END"
    /\ tokens[4].type = "OUTPUT_BYTE"
    /\ output = <<0>>

(* ------------------------------ main() --------------------------------- *)
\* most files on the command line
MaxFiles == 3

\* the files main() is given: an empty program, one that outputs "\n", one
\* that outputs the character 0, one that loops and outputs nothing, and one
\* the constructor rejects
MainPrograms ==
    {<<>>,
     Repeat("+", 10) \o <<".">>,
     <<",", ">", "+", "<", "[", "]", ".">>,
     <<"+", "[", "-", "]">>,
     <<"]">>}

MainInit ==
    /\ pc = "idle"
    /\ program = <<>>
    /\ tokens = <<>>
    /\ bits_arg = 0
    /\ jump_table = <<>>
    /\ bits = 0
    /\ bitwidth = Zero
    /\ pointer = 0 /\ instr = 0 /\ steps = 0
    /\ data = <<>> /\ output = <<>>
    /\ error = "none"
    /\ argv \in UNION {[1..n -> MainPrograms] : n \in 0..MaxFiles}
    /\ file_idx = 0
    /\ stdout = <<>>
    /\ main_pc = "start"

\* BrainfuckInterpreter.from_file(filepath) begins: the text of file k is
\* read into a new lexer; nothing of an earlier interpreter is left
FromFile(k) ==
    /\ pc' = "source"
    /\ program' = argv[k]
    /\ tokens' = <<>>
    /\ bits_arg' = 0
    /\ jump_table' = <<>> /\ bits' = 0 /\ bitwidth' = Zero
    /\ pointer' = 0 /\ instr' = 0 /\ steps' = 0
    /\ data' = <<>> /\ output' = <<>>
    /\ file_idx' = k

\* the tests on len(sys.argv) at the head of main()
MainEnter ==
    /\ main_pc = "start"
    /\ IF Len(argv) = 0
         THEN /\ main_pc' = "done"
              /\ UNCHANGED <<pc, program, tokens, bits_arg, object,
                             runLocals, file_idx>>
         ELSE /\ main_pc' = IF Len(argv) = 1 THEN "single" ELSE "loop"
              /\ FromFile(1)
    /\ UNCHANGED <<error, argv, stdout>>

\* from_file passes the default bits = 8 to the constructor
MainConstruct == Construct /\ bits_arg' = 8

\* one file: print(BrainfuckInterpreter.from_file(sys.argv[1]).run(), end="")
MainPrintSingle ==
    /\ main_pc = "single"
    /\ pc = "returned"
    /\ stdout' = Append(stdout, <<"out", output>>)
    /\ main_pc' = "done"
    /\ UNCHANGED <<pc, program, tokens, bits_arg, object, runLocals, error,
                   argv, file_idx>>

\* the body of the for loop once run() has returned out: the header, the
\* output, then the test of out[-1] (IndexError on the empty string) and
\* the end-of-line mark; then the next file, or the end of main()
MainPrintLoop ==
    /\ main_pc = "loop"
    /\ pc = "returned"
    /\ LET printed == stdout \o <<<<"header", file_idx>>, <<"out", output>>>>
       IN IF Len(output) = 0
            THEN /\ stdout' = printed
                 /\ main_pc' = "raised"
                 /\ error' = "IndexError"
                 /\ UNCHANGED <<pc, program, tokens, bits_arg, object,
                                runLocals, file_idx>>
            ELSE /\ stdout' = IF output[Len(output)] # 10
                                THEN Append(printed, <<"mark">>)
                                ELSE printed
                 /\ UNCHANGED error
                 /\ IF file_idx < Len(argv)
                      THEN /\ FromFile(file_idx + 1)
                           /\ UNCHANGED main_pc
                      ELSE /\ main_pc' = "done"
                           /\ UNCHANGED <<pc, program, tokens, bits_arg,
                                          object, runLocals, file_idx>>
    /\ UNCHANGED argv

\* an exception of the constructor or of run() leaves main()
MainPropagate ==
    /\ main_pc \in {"single", "loop"}
    /\ pc \in {"raised", "failed"}
    /\ main_pc' = "raised"
    /\ UNCHANGED <<pc, program, tokens, bits_arg, object, runLocals, error,
                   argv, file_idx, stdout>>

MainNext ==
    \/ MainEnter
    \/ Tokenize
    \/ MainConstruct
    \/ RunEnter
    \/ RunBreak
    \/ RunIncrementPointer
    \/ RunDecrementPointer
    \/ RunIncrementByte
    \/ RunDecrementByte
    \/ RunOutputByte
    \/ RunInputByte
    \/ RunLoopStart
    \/ RunLoopEnd
    \/ MainPrintSingle
    \/ MainPrintLoop
    \/ MainPropagate

MainSpec == MainInit /\ [][MainNext]_vars

(* ------------------------------ C20 ------------------------------------ *)
\* the header of every file up to k was printed, in argument order
HeadersUpTo(k) ==
    SelectSeq(stdout, LAMBDA item : item[1] = "header")
        = [n \in 1..k |-> <<"header", n>>]

\* C20: with two or more files, main() raises only when the constructor or
\* run() of a file raised: a file whose run returns, with any output, the
\* empty one included, has its header and output printed and is followed by
\* the next file; when main() is done every file was processed in order.
C20_MultiFile ==
    Len(argv) >= 2 =>
        /\ main_pc = "raised" => pc \in {"raised", "failed"}
        /\ main_pc = "done" => HeadersUpTo(Len(argv))

====
